---- MODULE Spec2Model ----
(***************************************************************************)
(* The client-side data synchronisation layer of the pledge/payment admin  *)
(* application: the query hooks and mutation hooks of the query module     *)
(* (src/unnamed/part_000), which drive a @tanstack/react-query cache.      *)
(*                                                                         *)
(* The hooks only call useQuery / useMutation / invalidateQueries; what    *)
(* those calls do to the cache is the library's behaviour (v5, default     *)
(* QueryClient options), modelled here step by step:                       *)
(*   - a cache entry is a Query: status, fetchStatus, data, error,         *)
(*     dataUpdatedAt, isInvalidated, observers, gc timer;                  *)
(*   - a mounted useQuery is one observer (a handle);                      *)
(*   - every fetch of a query is one flight, which stays in flight until   *)
(*     its HTTP promise settles (fetchPledges never passes the abort       *)
(*     signal to fetch(), so cancelling a fetch in the cache does not stop *)
(*     the request);                                                       *)
(*   - a fetch whose query function rejects invokes it again (useQuery is  *)
(*     given no retry option: three retries) as long as the query has an   *)
(*     observer; a flight counts its rejections. FetchRetry is one         *)
(*     rejection that is retried, FetchFailure the rejection that ends the *)
(*     fetch; where FetchRetry is not a step of a specification,           *)
(*     FetchFailure stands for the rejections of the fetch altogether.     *)
(* Time is counted in minutes.                                             *)
(***************************************************************************)
EXTENDS Integers, FiniteSets, Sequences, TLC

VARIABLES cache, flights, calls, subs, now, ev, zeroSince, superseded

vars == <<cache, flights, calls, subs, now, ev, zeroSince, superseded>>

\* ---------------------------------------------------------------- bounds
MaxId == 2
MaxHandles == 2
MaxFetches == 4
CoreFetches == 3
MaxEntries == 2
KeysFetches == 2
MaxTime == 36
TickStep == 3

\* ------------------------------------------------------- program constants
\* staleTime: 1000 * 60 * 5 ms, in minutes
StaleTime == 5
\* gcTime: 1000 * 60 * 30 ms, in minutes
GcTime == 30
\* useQuery is called without a retry option: a failing fetch is retried
\* three times
Retry == 3

Ids == 1..MaxId
Handles == 1..MaxHandles
\* an optional field that is not set (undefined)
Undef == 0
NoData == 0
NoTimer == -1
\* zeroSince[k]: since when the query of k has had no observer (a history
\* variable; NotZero while it has one, or while the cache has no such query)
NotZero == NoTimer

\* ------------------------------------------------------------- query keys
\* A query key is an array; its elements are strings, numbers or a
\* parameter object (of which contactId and categoryId are modelled).
Str(x) == [s |-> x]
Num(i) == [n |-> i]
Obj(c, g) == [contactId |-> c, categoryId |-> g]
IsObj(x) == "contactId" \in DOMAIN x

pledgeKeys_all == <<Str("pledges")>>
pledgeKeys_lists == pledgeKeys_all \o <<Str("list")>>
pledgeKeys_list(params) == pledgeKeys_lists \o <<params>>
pledgeKeys_details == pledgeKeys_all \o <<Str("detail")>>
pledgeKeys_detail(id) == pledgeKeys_details \o <<Num(id)>>

paymentKeys_all == <<Str("payments")>>
paymentKeys_lists == paymentKeys_all \o <<Str("list")>>
paymentKeys_byPledge(pledgeId) == paymentKeys_lists \o <<Str("pledge"), Num(pledgeId)>>
paymentKeys_byContact(contactId) == paymentKeys_lists \o <<Str("contact"), Num(contactId)>>

\* the key of a query of another family (the payment plans table's hook)
paymentPlanKey == <<Str("paymentPlans")>>

PledgeQueryParams == {Obj(c, g) : c \in {Undef} \cup Ids, g \in {Undef} \cup Ids}

PledgeListKeys == {pledgeKeys_list(p) : p \in PledgeQueryParams}
PledgeDetailKeys == {pledgeKeys_detail(i) : i \in Ids}
PaymentKeys == {paymentKeys_byPledge(i) : i \in Ids} \cup {paymentKeys_byContact(i) : i \in Ids}
AllKeys == PledgeListKeys \cup PledgeDetailKeys \cup PaymentKeys \cup {paymentPlanKey}
NoKey == <<>>

\* JavaScript truthiness of an optional id
Truthy(v) == v # Undef /\ v # 0

\* partialMatchKey(a, b) on one element: a parameter object matches when
\* every field the filter sets has the same value in the query's object
ElemMatch(a, b) ==
    IF IsObj(b)
    THEN /\ IsObj(a)
         /\ (b.contactId # Undef => a.contactId = b.contactId)
         /\ (b.categoryId # Undef => a.categoryId = b.categoryId)
    ELSE a = b

\* partialMatchKey(queryKey, filterKey): the filter key is a prefix
partialMatchKey(a, b) ==
    /\ Len(b) <= Len(a)
    /\ \A i \in 1..Len(b) : ElemMatch(a[i], b[i])

\* ------------------------------------------------------------ cache entries
Missing ==
    [status |-> "absent", fetchStatus |-> "idle", data |-> NoData, error |-> FALSE,
     dataUpdatedAt |-> 0, isInvalidated |-> FALSE, observers |-> {}, gcAt |-> NoTimer]

Exists(e) == e.status # "absent"

\* new Query(): no data, pending, idle; the constructor schedules the gc timer
NewQuery(t) ==
    [status |-> "pending", fetchStatus |-> "idle", data |-> NoData, error |-> FALSE,
     dataUpdatedAt |-> 0, isInvalidated |-> FALSE, observers |-> {}, gcAt |-> t + GcTime]

\* a staleness test that never looks at the clock
IsStale_NoClock(e, t) == e.isInvalidated \/ e.data = NoData

\* Query.isStaleByTime(staleTime)
IsStale(e, t) == e.isInvalidated \/ e.data = NoData \/ t >= e.dataUpdatedAt + StaleTime

\* ------------------------------------------------- the fetch coordinator
\* One query as a synchronous cache operation sees it: its entry, the
\* invocations of its query function still in flight, and the number of
\* invocations made so far.
Q(e, fl, n) == [e |-> e, fl |-> fl, n |-> n]

\* Silent cancel of the running fetch: its retryer is rejected, so its
\* outcome will be ignored (the request itself goes on), and the error
\* handler reschedules the gc timer.
CancelSilent(q, t) ==
    [q EXCEPT !.fl = {[f EXCEPT !.live = FALSE] : f \in q.fl},
              !.e.gcAt = t + GcTime]

\* a fetch that puts the query back to pending even when it holds data
StartFetch_AlwaysPending(q, k) ==
    [e |-> [q.e EXCEPT !.fetchStatus = "fetching", !.status = "pending", !.error = FALSE],
     fl |-> q.fl \cup {[key |-> k, seq |-> q.n + 1, live |-> TRUE, failureCount |-> 0]},
     n |-> q.n + 1]

\* dispatch 'fetch' and run the query function once
StartFetch(q, k) ==
    [e |-> [q.e EXCEPT !.fetchStatus = "fetching",
                       !.status = IF q.e.data = NoData THEN "pending" ELSE q.e.status,
                       !.error = IF q.e.data = NoData THEN FALSE ELSE q.e.error],
     fl |-> q.fl \cup {[key |-> k, seq |-> q.n + 1, live |-> TRUE, failureCount |-> 0]},
     n |-> q.n + 1]

\* Query.fetch(options, {cancelRefetch})
QueryFetch(q, k, cancelRefetch, t) ==
    IF q.e.fetchStatus # "idle"
    THEN IF q.e.data # NoData /\ cancelRefetch
         THEN StartFetch(CancelSilent(q, t), k)
         ELSE q
    ELSE StartFetch(q, k)

\* ------------------------------------------------------ invalidateQueries
\* an invalidation that ignores its filter and takes every query
invalidateQueries_NoFilter(q, k, filterKey, t) ==
    IF Exists(q.e)
    THEN IF q.e.observers # {}
         THEN QueryFetch([q EXCEPT !.e.isInvalidated = TRUE], k, TRUE, t)
         ELSE [q EXCEPT !.e.isInvalidated = TRUE]
    ELSE q

\* queryClient.invalidateQueries({ queryKey }), as it acts on the query of
\* key k: a query whose key the filter matches is marked invalidated, and is
\* refetched if it has observers (refetchType 'active', cancelRefetch true).
invalidateQueries(q, k, filterKey, t) ==
    IF Exists(q.e) /\ partialMatchKey(k, filterKey)
    THEN IF q.e.observers # {}
         THEN QueryFetch([q EXCEPT !.e.isInvalidated = TRUE], k, TRUE, t)
         ELSE [q EXCEPT !.e.isInvalidated = TRUE]
    ELSE q

\* ------------------------------------------------------------ useMutation
\* a mutation whose invalidations run whether or not mutationFn resolved
useMutation_OnSettled(ok, q, onSuccess) == onSuccess

\* useMutation({ mutationFn, onSuccess, onError }): onSuccess runs only when
\* mutationFn resolved; onError only logs (console.error).
useMutation(ok, q, onSuccess) == IF ok THEN onSuccess ELSE q

\* create-pledge invalidating only the lists of the contact and the category
CreatePledgeOnSuccess_OwnListsOnly(q, k, contactId, categoryId, t) ==
    LET q2 == invalidateQueries(q, k, pledgeKeys_list(Obj(contactId, Undef)), t)
    IN  IF Truthy(categoryId)
        THEN invalidateQueries(q2, k, pledgeKeys_list(Obj(Undef, categoryId)), t)
        ELSE q2

\* useCreatePledgeMutation.onSuccess(data, variables), on the query of key k
CreatePledgeOnSuccess(q, k, contactId, categoryId, t) ==
    LET q1 == invalidateQueries(q, k, pledgeKeys_all, t)
        q2 == invalidateQueries(q1, k, pledgeKeys_list(Obj(contactId, Undef)), t)
    IN  IF Truthy(categoryId)
        THEN invalidateQueries(q2, k, pledgeKeys_list(Obj(Undef, categoryId)), t)
        ELSE q2

\* create-payment invalidating only what names the pledge
CreatePaymentOnSuccess_PledgeOnly(q, k, pledgeId, t) ==
    LET q2 == invalidateQueries(q, k, paymentKeys_byPledge(pledgeId), t)
    IN  invalidateQueries(q2, k, pledgeKeys_detail(pledgeId), t)

\* useCreatePaymentMutation.onSuccess(data, variables), on the query of key k
CreatePaymentOnSuccess(q, k, pledgeId, t) ==
    LET q1 == invalidateQueries(q, k, paymentKeys_all, t)
        q2 == invalidateQueries(q1, k, paymentKeys_byPledge(pledgeId), t)
        q3 == invalidateQueries(q2, k, pledgeKeys_all, t)
    IN  invalidateQueries(q3, k, pledgeKeys_detail(pledgeId), t)

\* create-pledge-and-pay without its broad call: only the lists of the
\* contact and the category are invalidated
CreatePledgeAndPayOnSuccess_NarrowOnly(q, k, contactId, categoryId, t) ==
    LET q2 == invalidateQueries(q, k, pledgeKeys_list(Obj(contactId, Undef)), t)
    IN  IF Truthy(categoryId)
        THEN invalidateQueries(q2, k, pledgeKeys_list(Obj(Undef, categoryId)), t)
        ELSE q2

\* useCreatePledgeAndPayMutation.onSuccess(data, variables), on the query of
\* key k
CreatePledgeAndPayOnSuccess(q, k, contactId, categoryId, t) ==
    LET q1 == invalidateQueries(q, k, pledgeKeys_all, t)
        q2 == invalidateQueries(q1, k, pledgeKeys_list(Obj(contactId, Undef)), t)
    IN  IF Truthy(categoryId)
        THEN invalidateQueries(q2, k, pledgeKeys_list(Obj(Undef, categoryId)), t)
        ELSE q2

\* ------------------------------------------------------------------ state
\* ev: the operation that ran last and its outcome (a mutation or a fetch:
\* resolved or rejected; an unsubscribe: whether an observer was detached)
Event(op, ok) == [op |-> op, ok |-> ok]

Init ==
    /\ cache = <<>>
    /\ flights = {}
    /\ calls = <<>>
    /\ subs = [h \in Handles |-> [st |-> "new", key |-> NoKey]]
    /\ now = 0
    /\ ev = Event("init", TRUE)
    /\ zeroSince = <<>>
    /\ superseded = {}

\* superseded (a history variable): the fetches that were running for a
\* query with observers when a mutation invalidated it, and that the
\* invalidation left running; a fetch leaves the set when it settles.
FlightId(f) == [key |-> f.key, seq |-> f.seq]

\* cache maps the keys that have a query to their entries, calls the keys
\* whose query function has run to the number of its invocations, and
\* zeroSince the keys of the queries without observer to the time since
\* when.
Entries == DOMAIN cache
Get(k) == IF k \in DOMAIN cache THEN cache[k] ELSE Missing
CallsOf(k) == IF k \in DOMAIN calls THEN calls[k] ELSE 0
ZeroSince(k) == IF k \in DOMAIN zeroSince THEN zeroSince[k] ELSE NotZero

FlightsOf(k) == {f \in flights : f.key = k}

\* the query of key k in the current state
Query(k) == Q(Get(k), FlightsOf(k), CallsOf(k))

RECURSIVE Total(_, _)
Total(n, ks) ==
    IF ks = {} THEN 0
    ELSE LET k == CHOOSE x \in ks : TRUE IN n[k] + Total(n, ks \ {k})

\* the number of invocations of query functions so far
Issued(n) == Total(n, DOMAIN n)

\* the map m with the entries of the keys of f replaced by those of f, and
\* the keys that f maps to none dropped
Merge(m, f, none) ==
    LET keep == {k \in (DOMAIN m) \cup (DOMAIN f) : IF k \in DOMAIN f THEN f[k] # none ELSE TRUE}
    IN  [k \in keep |-> IF k \in DOMAIN f THEN f[k] ELSE m[k]]

\* The cache operation that turns the query of each key k into qs[k].
Commit(qs) ==
    LET newCalls == Merge(calls, [k \in DOMAIN qs |-> qs[k].n], 0)
    IN  /\ Issued(newCalls) <= MaxFetches
        /\ cache' = Merge(cache, [k \in DOMAIN qs |-> qs[k].e], Missing)
        /\ flights' = {f \in flights : f.key \notin DOMAIN qs} \cup UNION {qs[k].fl : k \in DOMAIN qs}
        /\ calls' = newCalls

\* shouldFetchOnMount(query, options): no data yet, or refetchOnMount with
\* stale data
shouldFetchOnMount(e, t) == e.data = NoData \/ IsStale(e, t)

\* a subscription that leaves the gc timer running
addObserver_KeepTimer(e, h) == [e EXCEPT !.observers = @ \cup {h}]

\* Query.addObserver(observer): the observer is added once and the gc timer
\* is cleared
addObserver(e, h) == [e EXCEPT !.observers = @ \cup {h}, !.gcAt = NoTimer]

\* a removal that counts: a handle that is not attached takes another
\* observer off the query
removeObserver_Counting(e, h, t) ==
    LET o == IF h \in e.observers THEN h ELSE CHOOSE x \in e.observers \cup {h} : TRUE
    IN  [e EXCEPT !.observers = @ \ {o},
                  !.gcAt = IF e.observers \ {o} = {} THEN t + GcTime ELSE @]

\* a removal that cancels the running fetch when the last observer leaves
removeObserver_Cancelling(e, h, t) ==
    IF h \in e.observers
    THEN [e EXCEPT !.observers = @ \ {h},
                   !.fetchStatus = IF e.observers \ {h} = {} THEN "idle" ELSE @,
                   !.gcAt = IF e.observers \ {h} = {} THEN t + GcTime ELSE @]
    ELSE e

\* Query.removeObserver(observer): a no-op unless the observer is attached;
\* the last observer leaving schedules the gc timer
removeObserver(e, h, t) ==
    IF h \in e.observers
    THEN [e EXCEPT !.observers = @ \ {h},
                   !.gcAt = IF e.observers \ {h} = {} THEN t + GcTime ELSE @]
    ELSE e

\* A component using useQuery with key k mounts: the query is built if the
\* cache has none, the observer subscribes, and onSubscribe fetches if
\* shouldFetchOnMount.
UseQueryMount(h, k) ==
    /\ subs[h].st # "on"
    /\ k \in Entries \/ Cardinality(Entries) < MaxEntries
    /\ LET built == IF k \in Entries THEN cache[k] ELSE NewQuery(now)
           q0 == Q(addObserver(built, h), FlightsOf(k), CallsOf(k))
           q1 == IF shouldFetchOnMount(built, now) THEN QueryFetch(q0, k, FALSE, now) ELSE q0
       IN  Commit([x \in {k} |-> q1])
    /\ subs' = [subs EXCEPT ![h] = [st |-> "on", key |-> k]]
    /\ ev' = Event("mount", TRUE)
    /\ zeroSince' = [x \in (DOMAIN zeroSince) \ {k} |-> zeroSince[x]]
    /\ UNCHANGED <<now, superseded>>

\* The unsubscribe function of a handle is called (on unmount, or again).
Unsubscribe(h) ==
    /\ subs[h].st # "new"
    /\ LET k == subs[h].key
       IN  /\ cache' = [x \in Entries |-> IF x = k THEN removeObserver(cache[x], h, now) ELSE cache[x]]
           /\ zeroSince' = IF Get(k).observers = {h}
                           THEN [x \in (DOMAIN zeroSince) \cup {k} |-> IF x = k THEN now ELSE zeroSince[x]]
                           ELSE zeroSince
    /\ subs' = [subs EXCEPT ![h].st = "off"]
    /\ ev' = Event("unsubscribe", h \in Get(subs[h].key).observers)
    /\ UNCHANGED <<flights, calls, now, superseded>>

\* a completion applied whether or not its fetch was cancelled
ApplySuccess_AnyFlight(e, f, t) ==
    [e EXCEPT !.status = "success", !.data = f.seq, !.dataUpdatedAt = t, !.error = FALSE,
              !.isInvalidated = FALSE, !.fetchStatus = "idle", !.gcAt = t + GcTime]

\* The promise of one invocation of the query function resolves.
ApplySuccess(e, f, t) ==
    IF f.live
    THEN [e EXCEPT !.status = "success", !.data = f.seq, !.dataUpdatedAt = t, !.error = FALSE,
                   !.isInvalidated = FALSE, !.fetchStatus = "idle", !.gcAt = t + GcTime]
    ELSE e

FetchSuccess(f) ==
    /\ f \in flights
    /\ cache' = [x \in Entries |-> IF x = f.key THEN ApplySuccess(cache[x], f, now) ELSE cache[x]]
    /\ flights' = flights \ {f}
    /\ ev' = Event("fetch", TRUE)
    /\ superseded' = superseded \ {FlightId(f)}
    /\ UNCHANGED <<calls, subs, now, zeroSince>>

\* a failure that throws the cached data away
ApplyError_DropsData(e, f, t) ==
    IF f.live
    THEN [e EXCEPT !.status = "error", !.error = TRUE, !.fetchStatus = "idle",
                   !.data = NoData, !.gcAt = t + GcTime]
    ELSE e

\* The rejection that ends a fetch: the error is stored, the previous data
\* is kept.
ApplyError(e, f, t) ==
    IF f.live
    THEN [e EXCEPT !.status = "error", !.error = TRUE, !.fetchStatus = "idle",
                   !.gcAt = t + GcTime]
    ELSE e

FetchFailure(f) ==
    /\ f \in flights
    /\ cache' = [x \in Entries |-> IF x = f.key THEN ApplyError(cache[x], f, now) ELSE cache[x]]
    /\ flights' = flights \ {f}
    /\ ev' = Event("fetch", FALSE)
    /\ superseded' = superseded \ {FlightId(f)}
    /\ UNCHANGED <<calls, subs, now, zeroSince>>

\* A rejection ends the fetch when it was cancelled, when its retries are
\* used up, or when the query has no observer left (the last observer to
\* leave cancels the retries).
RetriesExhausted(f) ==
    \/ ~f.live
    \/ f.failureCount >= Retry
    \/ Get(f.key).observers = {}

\* The query function of a fetch rejects and the fetch invokes it again.
FetchRetry(f) ==
    /\ f \in flights
    /\ ~RetriesExhausted(f)
    /\ flights' = (flights \ {f}) \cup {[f EXCEPT !.failureCount = @ + 1]}
    /\ ev' = Event("retry", FALSE)
    /\ UNCHANGED <<cache, calls, subs, now, zeroSince, superseded>>

\* a timer that removes the query without looking at it
optionalRemove_Unchecked(e) == Missing

\* Removable.optionalRemove(): the gc timer of k expires
optionalRemove(e) ==
    IF e.observers = {} /\ e.fetchStatus = "idle" THEN Missing ELSE [e EXCEPT !.gcAt = NoTimer]

GcTimerFires(k) ==
    /\ k \in Entries
    /\ cache[k].gcAt # NoTimer
    /\ cache[k].gcAt <= now
    /\ LET e == optionalRemove(cache[k])
       IN  /\ cache' = Merge(cache, [x \in {k} |-> e], Missing)
           /\ zeroSince' = Merge(zeroSince, [x \in {k} |-> IF Exists(e) THEN ZeroSince(k) ELSE NotZero], NotZero)
    /\ ev' = Event("gc", TRUE)
    /\ UNCHANGED <<flights, calls, subs, now, superseded>>

\* Time passes. A timer that is due fires before more time passes.
Tick(d) ==
    /\ now + d <= MaxTime
    /\ \A k \in Entries : cache[k].gcAt # NoTimer => cache[k].gcAt > now
    /\ now' = now + d
    /\ ev' = Event("tick", TRUE)
    /\ UNCHANGED <<cache, flights, calls, subs, zeroSince, superseded>>

\* the running fetches of observed queries that the current step leaves
\* running
Outlived ==
    {f \in flights : f.live /\ f \in flights' /\ f.key \in Entries /\ Get(f.key).observers # {}}

\* a query that an invalidation changes if and only if its filter matches
Probe == Q(NewQuery(0), {}, 0)

\* The POST of a mutation settles (ok: resolved, otherwise rejected; the
\* error handler only logs the error).
CreatePledgeSettled(contactId, categoryId, ok) ==
    /\ Commit([k \in Entries |->
            useMutation(ok, Query(k), CreatePledgeOnSuccess(Query(k), k, contactId, categoryId, now))])
    /\ superseded' = superseded \cup
            {FlightId(f) : f \in {g \in Outlived :
                useMutation(ok, Probe, CreatePledgeOnSuccess(Probe, g.key, contactId, categoryId, now)) # Probe}}
    /\ ev' = Event("createPledge", ok)
    /\ UNCHANGED <<subs, now, zeroSince>>

CreatePaymentSettled(pledgeId, ok) ==
    /\ Commit([k \in Entries |->
            useMutation(ok, Query(k), CreatePaymentOnSuccess(Query(k), k, pledgeId, now))])
    /\ superseded' = superseded \cup
            {FlightId(f) : f \in {g \in Outlived :
                useMutation(ok, Probe, CreatePaymentOnSuccess(Probe, g.key, pledgeId, now)) # Probe}}
    /\ ev' = Event("createPayment", ok)
    /\ UNCHANGED <<subs, now, zeroSince>>

CreatePledgeAndPaySettled(contactId, categoryId, ok) ==
    /\ Commit([k \in Entries |->
            useMutation(ok, Query(k), CreatePledgeAndPayOnSuccess(Query(k), k, contactId, categoryId, now))])
    /\ superseded' = superseded \cup
            {FlightId(f) : f \in {g \in Outlived :
                useMutation(ok, Probe, CreatePledgeAndPayOnSuccess(Probe, g.key, contactId, categoryId, now)) # Probe}}
    /\ ev' = Event("createPledgeAndPay", ok)
    /\ UNCHANGED <<subs, now, zeroSince>>

\* ------------------------------------------------------- specifications
\* The queries of one contact's pledge list and of one pledge's detail, with
\* every interleaving of mounts, unsubscribes, fetch outcomes and the
\* create-pledge and create-payment mutations about that contact and pledge
\* (create-pledge-and-pay has the invalidations of create-pledge). No time
\* passes.
CoreKeys == {pledgeKeys_list(Obj(1, Undef)), pledgeKeys_detail(1)}

CoreBudget == Issued(calls') <= CoreFetches

Next ==
    \/ \E h \in Handles, k \in CoreKeys : UseQueryMount(h, k) /\ CoreBudget
    \/ \E h \in Handles : Unsubscribe(h)
    \/ \E f \in flights : FetchSuccess(f)
    \/ \E f \in flights : FetchFailure(f)
    \/ \E ok \in BOOLEAN : CreatePledgeSettled(1, Undef, ok) /\ CoreBudget
    \/ \E ok \in BOOLEAN : CreatePaymentSettled(1, ok) /\ CoreBudget

Spec == Init /\ [][Next]_vars

\* Every query family, one observer, and the mutations about contact 1,
\* category 1 and pledge 1 (the keys range over the other ids too). No time
\* passes.
KeysHandles == {1}

KeysBudget == Issued(calls') <= KeysFetches

NextKeys ==
    \/ \E h \in KeysHandles, k \in AllKeys : UseQueryMount(h, k) /\ KeysBudget
    \/ \E h \in KeysHandles : Unsubscribe(h)
    \/ \E f \in flights : FetchSuccess(f)
    \/ \E f \in flights : FetchFailure(f)
    \/ \E g \in {Undef, 1}, ok \in BOOLEAN : CreatePledgeSettled(1, g, ok) /\ KeysBudget
    \/ \E ok \in BOOLEAN : CreatePaymentSettled(1, ok) /\ KeysBudget
    \/ \E g \in {Undef, 1}, ok \in BOOLEAN : CreatePledgeAndPaySettled(1, g, ok) /\ KeysBudget

SpecKeys == Init /\ [][NextKeys]_vars

\* One pledge list query and one observer over a clock long enough for
\* staleness and gc.
TimedKeys == {pledgeKeys_list(Obj(1, Undef))}
TimedHandles == {1}

NextTimed ==
    \/ \E h \in TimedHandles, k \in TimedKeys : UseQueryMount(h, k) /\ CoreBudget
    \/ \E h \in TimedHandles : Unsubscribe(h)
    \/ \E f \in flights : FetchSuccess(f)
    \/ \E f \in flights : FetchFailure(f)
    \/ \E ok \in BOOLEAN : CreatePledgeSettled(1, Undef, ok) /\ CoreBudget
    \/ \E k \in TimedKeys : GcTimerFires(k)
    \/ Tick(TickStep)

SpecTimed == Init /\ [][NextTimed]_vars

\* One pledge list query and two observers, with every rejection of the
\* query function a step of its own. No time passes.
RetryKeys == {pledgeKeys_list(Obj(1, Undef))}

NextRetry ==
    \/ \E h \in Handles, k \in RetryKeys : UseQueryMount(h, k) /\ CoreBudget
    \/ \E h \in Handles : Unsubscribe(h)
    \/ \E f \in flights : FetchSuccess(f)
    \/ \E f \in flights : FetchRetry(f)
    \/ \E f \in flights : FetchFailure(f) /\ RetriesExhausted(f)
    \/ \E ok \in BOOLEAN : CreatePledgeSettled(1, Undef, ok) /\ CoreBudget

SpecRetry == Init /\ [][NextRetry]_vars

\* The two queries of Spec and one observer that moves between them, with
\* the gc timers and a clock that advances by gcTime, and a fetch budget
\* large enough for a cancelled fetch of one query to outlive the removal
\* of its entry while the other query is cached.
DetachHandles == {1}

NextDetach ==
    \/ \E h \in DetachHandles, k \in CoreKeys : UseQueryMount(h, k)
    \/ \E h \in DetachHandles : Unsubscribe(h)
    \/ \E f \in flights : FetchSuccess(f)
    \/ \E f \in flights : FetchFailure(f)
    \/ \E ok \in BOOLEAN : CreatePledgeSettled(1, Undef, ok)
    \/ \E k \in CoreKeys : GcTimerFires(k)
    \/ Tick(GcTime)

SpecDetach == Init /\ [][NextDetach]_vars

\* ------------------------------------------------------------- properties
\* the invocations of the query function of k made by the current step
NewFlights(k) == {f \in flights' : f.key = k} \ flights

MutationOps == {"createPledge", "createPayment", "createPledgeAndPay"}

MatchesAny(k, prefixes) == \E p \in prefixes : partialMatchKey(k, p)

\* C1: for every key, at most one fetch is in flight at any time (request
\* de-duplication), whatever the interleaving of requests, completions,
\* subscribes and invalidations.
C1_AtMostOneFetchInFlight ==
    \A k \in AllKeys : Cardinality(FlightsOf(k)) <= 1

\* C2: after a successful create-payment for pledge p of contact c, every
\* cache entry whose key is matched by one of the prefixes [payments],
\* [payments, byPledge, p], [payments, byContact, c], [pledges],
\* [pledges, detail, p] is still cached and is stale (forced: its
\* invalidated mark is set).
C2_Prefixes(p, c) ==
    {paymentKeys_all, paymentKeys_byPledge(p), paymentKeys_byContact(c),
     pledgeKeys_all, pledgeKeys_detail(p)}

C2_CreatePaymentInvalidates ==
    [][\A p \in Ids : CreatePaymentSettled(p, TRUE) =>
          \A c \in Ids : \A k \in Entries :
              MatchesAny(k, C2_Prefixes(p, c)) =>
                  /\ Exists(Get(k)')
                  /\ Get(k)'.isInvalidated
                  /\ IsStale(Get(k)', now')]_vars

C2_Witness ==
    /\ ev = Event("createPayment", TRUE)
    /\ Exists(Get(paymentKeys_byContact(2)))
    /\ Get(paymentKeys_byContact(2)).isInvalidated
    /\ Get(paymentKeys_byContact(2)).data # NoData
    /\ Exists(Get(pledgeKeys_detail(1)))
    /\ Get(pledgeKeys_detail(1)).isInvalidated

\* C3 as stated: a successful create-payment for pledge p (of some contact
\* c) leaves untouched every entry whose key has none of the prefixes
\* [payments, byPledge, p], [payments, byContact, c], [pledges, list],
\* [pledges, detail, p]: its stale mark is unchanged and it is not refetched.
C3_Prefixes(p, c) ==
    {paymentKeys_byPledge(p), paymentKeys_byContact(c), pledgeKeys_lists, pledgeKeys_detail(p)}

C3_OnlyTheFourPrefixes ==
    [][\A p \in Ids : CreatePaymentSettled(p, TRUE) =>
          \E c \in Ids : \A k \in Entries :
              ~MatchesAny(k, C3_Prefixes(p, c)) =>
                  /\ Get(k)'.isInvalidated = Get(k).isInvalidated
                  /\ NewFlights(k) = {}]_vars

\* C3 as amended: a successful create-payment invalidates exactly the
\* entries whose key has the prefix [payments] or [pledges]; an entry
\* whose key has neither prefix is left as it was and is not refetched.
C3_ExactlyPaymentsAndPledges ==
    [][\A p \in Ids : CreatePaymentSettled(p, TRUE) =>
          \A k \in Entries :
              IF MatchesAny(k, {paymentKeys_all, pledgeKeys_all})
              THEN Exists(Get(k)') /\ Get(k)'.isInvalidated
              ELSE Get(k)' = Get(k) /\ NewFlights(k) = {}]_vars

C3_Witness ==
    /\ ev = Event("createPayment", TRUE)
    /\ Exists(Get(paymentPlanKey))
    /\ Get(paymentPlanKey).data # NoData
    /\ ~Get(paymentPlanKey).isInvalidated
    /\ Exists(Get(paymentKeys_byPledge(2)))
    /\ Get(paymentKeys_byPledge(2)).isInvalidated

\* C4: when a mutation succeeds, an entry it matches that has subscribers
\* is refetched at once with one fetch (none if its fetch is already in
\* flight), and an entry without subscribers gets no fetch.
C4_OneFetchPerSubscribedEntry ==
    /\ [][(ev'.op \in MutationOps /\ ev'.ok) =>
          \A k \in Entries : MatchesAny(k, {pledgeKeys_all}) =>
              IF Get(k).observers # {}
              THEN /\ Get(k)'.fetchStatus = "fetching"
                   /\ Cardinality(NewFlights(k)) <= 1
                   /\ (Get(k).fetchStatus = "idle" => Cardinality(NewFlights(k)) = 1)
              ELSE Get(k)'.isInvalidated /\ NewFlights(k) = {}]_vars
    /\ [][\A h \in Handles, k \in Entries :
            (/\ UseQueryMount(h, k)
             /\ Get(k).isInvalidated
             /\ Get(k).observers = {} /\ Get(k).fetchStatus = "idle") =>
                Cardinality(NewFlights(k)) = 1]_vars

\* an entry that reached success and has not been invalidated since
HoldsValidData(e) == e.status = "success" /\ ~e.isInvalidated

\* C5 as stated: for an entry that reached success at t0 and has not been
\* invalidated since, a request (a mount of useQuery) strictly before
\* t0 + staleTime invokes no fetch and leaves status and data as they
\* were; a request after t0 + staleTime invokes the query function once
\* and moves the entry's status to pending.
C5_StaleRequestMovesToPending ==
    [][\A h \in Handles, k \in Entries :
          (UseQueryMount(h, k) /\ HoldsValidData(Get(k))) =>
              /\ now < Get(k).dataUpdatedAt + StaleTime =>
                    /\ NewFlights(k) = {}
                    /\ Get(k)'.status = Get(k).status
                    /\ Get(k)'.data = Get(k).data
              /\ (now > Get(k).dataUpdatedAt + StaleTime /\ Get(k).fetchStatus = "idle") =>
                    /\ Cardinality(NewFlights(k)) = 1
                    /\ Get(k)'.status = "pending"]_vars

\* C5 as amended: strictly before t0 + staleTime the request invokes no
\* fetch and leaves status, fetch status and data as they were; after
\* t0 + staleTime it invokes the query function once, and the entry keeps
\* status success and its data while that fetch is in flight (only its
\* fetch status becomes fetching).
C5_StaleRequestRefetchesInBackground ==
    [][\A h \in Handles, k \in Entries :
          (UseQueryMount(h, k) /\ HoldsValidData(Get(k))) =>
              /\ now < Get(k).dataUpdatedAt + StaleTime =>
                    /\ NewFlights(k) = {}
                    /\ Get(k)'.status = Get(k).status
                    /\ Get(k)'.fetchStatus = Get(k).fetchStatus
                    /\ Get(k)'.data = Get(k).data
              /\ (now > Get(k).dataUpdatedAt + StaleTime /\ Get(k).fetchStatus = "idle") =>
                    /\ Cardinality(NewFlights(k)) = 1
                    /\ Get(k)'.status = "success"
                    /\ Get(k)'.fetchStatus = "fetching"
                    /\ Get(k)'.data = Get(k).data]_vars

C5_Witness ==
    /\ ev = Event("mount", TRUE)
    /\ \E k \in Entries :
          /\ HoldsValidData(cache[k])
          /\ cache[k].data # NoData
          /\ cache[k].fetchStatus = "fetching"
          /\ now > cache[k].dataUpdatedAt + StaleTime
          /\ \E f \in FlightsOf(k) : f.live /\ f.seq = CallsOf(k)

\* a step removes the entry of k from the cache
Removed(k) == k \in DOMAIN cache /\ k \notin DOMAIN cache'

\* an entry is removed only after its subscriber count has been 0
\* continuously for gcTime
C6_RemovedOnlyAfterGcTime ==
    \A k \in Entries : Removed(k) =>
        /\ ZeroSince(k) # NotZero
        /\ now >= ZeroSince(k) + GcTime

\* a new subscriber cancels the gc timer and the entry survives
C6_SubscriberCancelsTimer ==
    \A h \in Handles, k \in DOMAIN cache' : UseQueryMount(h, k) =>
        /\ Exists(Get(k)')
        /\ Get(k)'.gcAt = NoTimer
        /\ ZeroSince(k)' = NotZero

\* C6 as stated: an entry is removed only after its subscriberCount has been
\* 0 continuously for gcTime, a new subscriber cancels the timer and the
\* entry survives, and the entry is removed once gcTime has elapsed since
\* the count reached 0 (within one step of the clock).
C6_RemovedOnceGcTimeElapsed ==
    /\ [][C6_RemovedOnlyAfterGcTime /\ C6_SubscriberCancelsTimer]_vars
    /\ [](\A k \in Entries :
            ZeroSince(k) # NotZero => now < ZeroSince(k) + GcTime + TickStep)

\* C6 as amended: an entry is removed only after its subscriberCount has
\* been 0 continuously for gcTime and while no fetch for it is in flight;
\* a new subscriber cancels the timer and the entry survives; every fetch
\* that settles restarts the timer, so an entry without subscribers and
\* without a fetch in flight is removed when that timer expires, which is
\* gcTime or more after the count reached 0.
C6_RemovedWhenTimerExpires ==
    /\ [][/\ C6_RemovedOnlyAfterGcTime
          /\ C6_SubscriberCancelsTimer
          /\ \A k \in Entries : Removed(k) => Get(k).fetchStatus = "idle"]_vars
    /\ [](\A k \in Entries :
            (cache[k].observers = {} /\ cache[k].fetchStatus = "idle") =>
                /\ ZeroSince(k) # NotZero
                /\ cache[k].gcAt # NoTimer
                /\ cache[k].gcAt >= ZeroSince(k) + GcTime
                /\ now < cache[k].gcAt + TickStep)

C6_Witness ==
    /\ ev = Event("gc", TRUE)
    /\ Entries = {}
    /\ \E k \in DOMAIN calls : calls[k] > 0
    /\ \E h \in Handles : subs[h].st = "off"
    /\ now >= GcTime + TickStep

\* C7: within one key, when a fetch resolves with success, the entry takes
\* its data if it is the fetch issued last for the key and keeps the data
\* it holds otherwise; so the data an entry holds never goes back to that of
\* an earlier-issued fetch.
C7_LaterIssuedFetchWins ==
    [][/\ \A f \in flights : (FetchSuccess(f) /\ f.key \in Entries) =>
              Get(f.key)'.data = IF f.seq = CallsOf(f.key) THEN f.seq ELSE Get(f.key).data
       /\ \A k \in Entries : k \in DOMAIN cache' => Get(k)'.data >= Get(k).data]_vars

C7_Witness ==
    /\ ev = Event("fetch", TRUE)
    /\ \E k \in Entries :
          /\ cache[k].status = "success"
          /\ cache[k].data = CallsOf(k)
          /\ \E f \in FlightsOf(k) : f.seq < cache[k].data

\* the handles subscribed to k and not yet unsubscribed
Subscribed(k) == {h \in Handles : subs[h].st = "on" /\ subs[h].key = k}

\* C8: the subscriber count of every key equals the number of handles
\* subscribed to it and not yet unsubscribed (so it is never negative), and
\* unsubscribing a handle that is already unsubscribed leaves every entry
\* and every fetch as it was.
C8_CountIsSubscribedHandles ==
    /\ [](\A k \in AllKeys : Cardinality(Get(k).observers) = Cardinality(Subscribed(k)))
    /\ [][\A h \in Handles : (Unsubscribe(h) /\ subs[h].st = "off") =>
              UNCHANGED <<cache, flights, calls, subs>>]_vars

C8_Witness ==
    /\ ev = Event("unsubscribe", FALSE)
    /\ \E h \in Handles :
          /\ subs[h].st = "off"
          /\ subs[h].key \in Entries
          /\ Cardinality(cache[subs[h].key].observers) = 1
          /\ Cardinality(Subscribed(subs[h].key)) = 1

\* C9: after a successful create-pledge, and after a successful
\* create-pledge-and-pay, every cached pledge-list entry, whatever its
\* parameter bag, is still cached and is stale (its invalidated mark is
\* set).
C9_EveryPledgeListStale ==
    [][(ev'.op \in {"createPledge", "createPledgeAndPay"} /\ ev'.ok) =>
          \A k \in PledgeListKeys \cap Entries :
              /\ Exists(Get(k)')
              /\ Get(k)'.isInvalidated
              /\ IsStale(Get(k)', now')]_vars

C9_Witness ==
    /\ ev.op \in {"createPledge", "createPledgeAndPay"}
    /\ ev.ok
    /\ \E k \in {pledgeKeys_list(Obj(2, 2)), pledgeKeys_list(Obj(Undef, Undef))} :
          /\ k \in Entries
          /\ cache[k].data # NoData
          /\ cache[k].isInvalidated

\* C10: a mutation that fails changes no cache entry (its stale mark, status,
\* data and subscribers stay as they were) and issues no fetch.
C10_FailedMutationChangesNothing ==
    [][(ev'.op \in MutationOps /\ ~ev'.ok) =>
          UNCHANGED <<cache, flights, calls, subs, zeroSince>>]_vars

C10_Witness ==
    /\ ev.op \in MutationOps
    /\ ~ev.ok
    /\ \E k \in Entries :
          /\ cache[k].observers # {}
          /\ cache[k].status = "success"
          /\ cache[k].fetchStatus = "idle"
          /\ ~cache[k].isInvalidated

\* the query function of fetch f rejects
Rejects(f) == FetchRetry(f) \/ FetchFailure(f)

\* C11 as stated: when the query function of a fetch rejects while the entry
\* holds data of an earlier success, the entry moves to status error with the
\* failure stored and its data unchanged, and the query function is not
\* invoked again on its own; the next request (a mount) issues a new fetch.
C11_FailureStoredWithoutRetry ==
    /\ [][\A f \in flights :
            (Rejects(f) /\ f.live /\ Get(f.key).data # NoData) =>
                /\ Get(f.key)'.status = "error"
                /\ Get(f.key)'.error
                /\ Get(f.key)'.data = Get(f.key).data
                /\ NewFlights(f.key) = {}]_vars
    /\ [][\A h \in Handles, k \in Entries :
            (UseQueryMount(h, k) /\ Get(k).status = "error" /\ Get(k).fetchStatus = "idle") =>
                Cardinality(NewFlights(k)) = 1]_vars

\* C11 as amended: a rejection is retried, up to three times and only while
\* the entry has a subscriber, leaving the entry as it is; the rejection
\* that ends the fetch moves the entry to status error with the failure
\* stored and its data, its fetch time and its subscribers unchanged, and
\* starts no fetch; the next request (a mount) issues one new fetch.
C11_FailureStoredAfterRetries ==
    /\ [][\A f \in flights :
            (f.live /\ Get(f.key).data # NoData) =>
                /\ FetchRetry(f) =>
                      /\ f.failureCount < Retry
                      /\ Get(f.key).observers # {}
                      /\ Get(f.key)' = Get(f.key)
                      /\ NewFlights(f.key) = {[f EXCEPT !.failureCount = @ + 1]}
                /\ (FetchFailure(f) /\ ~FetchRetry(f)) =>
                      /\ f.failureCount = Retry \/ Get(f.key).observers = {}
                      /\ Get(f.key)'.status = "error"
                      /\ Get(f.key)'.error
                      /\ Get(f.key)'.fetchStatus = "idle"
                      /\ Get(f.key)'.data = Get(f.key).data
                      /\ Get(f.key)'.dataUpdatedAt = Get(f.key).dataUpdatedAt
                      /\ Get(f.key)'.observers = Get(f.key).observers
                      /\ NewFlights(f.key) = {}]_vars
    /\ [][\A h \in Handles, k \in Entries :
            (UseQueryMount(h, k) /\ Get(k).status = "error" /\ Get(k).fetchStatus = "idle") =>
                Cardinality(NewFlights(k)) = 1]_vars

C11_Witness ==
    /\ ev = Event("fetch", FALSE)
    /\ \E k \in Entries :
          /\ cache[k].status = "error"
          /\ cache[k].error
          /\ cache[k].data # NoData
          /\ cache[k].fetchStatus = "idle"
          /\ Cardinality(cache[k].observers) = MaxHandles
          /\ FlightsOf(k) = {}

\* C12: when an entry with a subscriber is invalidated while its fetch is
\* running, the completion of that fetch is followed by a second fetch of
\* the key, and the data of the fetch issued before the invalidation is
\* never held as fresh.
C12_InvalidationSupersedesRunningFetch ==
    [][\A f \in flights :
          (FetchSuccess(f) /\ FlightId(f) \in superseded /\ Get(f.key).observers # {}) =>
              /\ \E g \in flights' : g.key = f.key /\ g.live
              /\ ~(Get(f.key)'.data = f.seq /\ ~IsStale(Get(f.key)', now'))]_vars

\* C13: the status of every entry is pending, success or error; data is
\* present exactly when the status is success and the error exactly when
\* the status is error.
C13_DataExactlyWhenSuccess ==
    \A k \in Entries :
        /\ Get(k).status \in {"pending", "success", "error"}
        /\ (Get(k).data # NoData) <=> (Get(k).status = "success")
        /\ Get(k).error <=> (Get(k).status = "error")

\* C13 (amended): the status of every entry is pending, success or error;
\* the error is present exactly when the status is error; a success entry
\* holds data and a pending entry holds none, while an error entry keeps
\* the data of its last successful fetch, if there was one.
C13_StatusDataErrorAgree ==
    \A k \in Entries :
        /\ Get(k).status \in {"pending", "success", "error"}
        /\ Get(k).error <=> (Get(k).status = "error")
        /\ (Get(k).status = "success") => (Get(k).data # NoData)
        /\ (Get(k).status = "pending") => (Get(k).data = NoData)

\* an entry whose refetch failed: status error, the error stored and the
\* earlier data still held
C13_Witness ==
    \E k \in Entries :
        /\ Get(k).status = "error"
        /\ Get(k).error
        /\ Get(k).data # NoData

\* C14: an entry has an active gc timer exactly when its subscriberCount
\* is 0.
C14_TimerExactlyWhenNoSubscriber ==
    \A k \in Entries : (Get(k).gcAt # NoTimer) <=> (Get(k).observers = {})

\* C14 (amended): subscribing cancels the gc timer of the entry, the
\* unsubscribe that brings the count to 0 starts one, an entry with no
\* subscriber and no fetch in flight always has an active timer, and no
\* entry with a subscriber is removed; a timer that expires while the entry
\* has a subscriber or a fetch in flight removes nothing.
C14_TimerFollowsSubscribers ==
    /\ [][/\ \A h \in Handles, k \in DOMAIN cache' :
                UseQueryMount(h, k) => Get(k)'.gcAt = NoTimer
          /\ \A h \in Handles :
                (Unsubscribe(h) /\ Get(subs[h].key).observers = {h}) =>
                    Get(subs[h].key)'.gcAt = now + GcTime
          /\ \A k \in Entries :
                Removed(k) => Get(k).observers = {}
          /\ \A k \in Entries :
                (GcTimerFires(k) /\ (Get(k).observers # {} \/ Get(k).fetchStatus # "idle")) =>
                    /\ ~Removed(k)
                    /\ Get(k)'.gcAt = NoTimer]_vars
    /\ [](\A k \in Entries :
            (Get(k).observers = {} /\ Get(k).fetchStatus = "idle") => Get(k).gcAt # NoTimer)

\* the timer of an entry expired while a subscriber was attached, and the
\* entry is still in the cache
C14_Witness ==
    /\ ev.op = "gc"
    /\ \E k \in Entries : Get(k).observers # {} /\ Get(k).data # NoData

\* the entries are well formed and agree with the fetches in flight and
\* with the subscribed handles
StoreInvariant ==
    /\ \A k \in Entries :
          /\ Get(k).status \in {"pending", "success", "error"}
          /\ Get(k).fetchStatus \in {"idle", "fetching"}
          /\ Get(k).error <=> (Get(k).status = "error")
          /\ (Get(k).status = "pending") <=> (Get(k).data = NoData /\ ~Get(k).error)
          /\ (Get(k).fetchStatus = "fetching") <=> (\E f \in flights : f.key = k /\ f.live)
          /\ Get(k).observers = Subscribed(k)
    /\ \A f \in flights : f.live => f.key \in Entries

\* C15: a subscriber detaching does not cancel the fetch in flight; a
\* completion that arrives for a key whose entry has been garbage-collected
\* is dropped (no entry is created for it); a completion never changes the
\* entry of another key, and the store invariants hold throughout.
C15_DetachKeepsFetchLateCompletionDropped ==
    /\ [][/\ \A h \in Handles :
                Unsubscribe(h) =>
                    /\ flights' = flights
                    /\ \A k \in Entries :
                          k \in DOMAIN cache' /\ Get(k)'.fetchStatus = Get(k).fetchStatus
          /\ \A f \in flights :
                (FetchSuccess(f) \/ FetchFailure(f)) =>
                    /\ f.key \notin Entries => cache' = cache
                    /\ DOMAIN cache' = Entries
                    /\ \A k \in Entries \ {f.key} : Get(k)' = Get(k)
                    /\ UNCHANGED <<subs, calls, zeroSince>>]_vars
    /\ []StoreInvariant

\* the completion of a cancelled fetch has just arrived for a key whose
\* entry was garbage-collected, while the other key is cached with its
\* first fetch still in flight
C15_Witness ==
    /\ ev.op = "fetch"
    /\ \E k \in CoreKeys \ Entries, k2 \in Entries :
          /\ CallsOf(k) = CoreFetches
          /\ FlightsOf(k) = {}
          /\ CallsOf(k2) = 1
          /\ Get(k2).fetchStatus = "fetching"

\* the broad prefixes among the invalidation calls of a mutation
BroadPrefixes(op) ==
    IF op = "createPayment" THEN {paymentKeys_all, pledgeKeys_all} ELSE {pledgeKeys_all}

\* C16: the narrower invalidation calls are subsumed by the broad ones: a
\* successful create-payment invalidates exactly the entries whose key is
\* matched by [payments] or [pledges], and a successful create-pledge or
\* create-pledge-and-pay exactly those matched by [pledges], which are all
\* the cached pledge entries, lists and details of other pledges included;
\* every other entry is left as it was.
C16_BroadCallsDecideTheInvalidatedSet ==
    [][(ev'.op \in MutationOps /\ ev'.ok) =>
          /\ \A k \in Entries :
                IF MatchesAny(k, BroadPrefixes(ev'.op))
                THEN Exists(Get(k)') /\ Get(k)'.isInvalidated
                ELSE Get(k)' = Get(k)
          /\ \A k \in (PledgeListKeys \cup PledgeDetailKeys) \cap Entries :
                Get(k)'.isInvalidated]_vars

\* a create-pledge-and-pay has succeeded and the cached detail of another
\* pledge, which no narrow call names, is invalidated
C16_Witness ==
    /\ ev = Event("createPledgeAndPay", TRUE)
    /\ pledgeKeys_detail(2) \in Entries
    /\ Get(pledgeKeys_detail(2)).data # NoData
    /\ Get(pledgeKeys_detail(2)).isInvalidated

====
